---- MODULE Spec2Model ----
(***************************************************************************)
(* A model of the analysis pipeline of src/services/geminiService.ts:      *)
(* frame extraction (extractFrames), per-frame inference with retries      *)
(* (analyzeFrame), the cross-frame tracker (linkCellsAcrossFrames), the    *)
(* report request (generateScientificReport) and the orchestrator          *)
(* (analyzeMicroscopyVideo).                                               *)
(*                                                                         *)
(* Numbers.  Times are exact integers counted in units of 1/60 s, and the  *)
(* video durations of the model are multiples of 30 units (half seconds),  *)
(* so that duration / MAX_FRAMES is an integer and the repeated addition   *)
(* time += samplingInterval is exact.  Cell coordinates are integer        *)
(* percentages; Math.sqrt is strictly increasing on the squared distances  *)
(* that occur (integers below 20001), so distances are compared through    *)
(* their squares.                                                          *)
(***************************************************************************)
EXTENDS Integers, Sequences, FiniteSets, TLC

VARIABLES
    pc,             \* where the modelled call stands
    videoDuration,  \* video.duration: a number of units, "NaN" or "Infinity"
    intervalSec,    \* extractFrames' parameter intervalSec, in units
    ctx,            \* canvas.getContext('2d') returned a context
    duration,       \* extractFrames: const duration
    time,           \* extractFrames: the loop variable time
    shown,          \* the position whose picture the video element shows
    seekTimeouts,   \* how many seek waits ended by their 3 s timeout
    lateSeek,       \* <<t>>: the seek to t outlived its wait and may still raise 'seeked'; or <<>>
    rawFrames,      \* extractFrames: frames / analyzeMicroscopyVideo: rawFrames
    idx,            \* analyzeMicroscopyVideo: the loop variable i (0-based)
    attempt,        \* analyzeFrame: the loop variable attempt
    calls,          \* history: vision-service calls made, per raw frame
    outcome,        \* history: how each frame's analyzeFrame returned
    progress,       \* history: the percents passed to onProgress, in order
    frames,         \* analyzedFrames / the array linkCellsAcrossFrames works on
    input,          \* history: the frames as they were handed to the tracker
    nextId,         \* linkCellsAcrossFrames: nextId
    fi,             \* linkCellsAcrossFrames: the loop variable i (0-based)
    cj,             \* linkCellsAcrossFrames: position in the running forEach (1-based)
    newCellsFound,  \* linkCellsAcrossFrames: newCellsFound
    minted,         \* history: <<frame, cell, id>> of every nextId++ , in order
    delay,          \* analyzeFrame: milliseconds of the backoff wait under way
    failure,        \* analyzeFrame: e.message of the error caught by the attempt, or NoValue
    service,        \* the parsed responses the vision service may answer with
    reportStats,    \* generateScientificReport: <<the statistics put in the request>>, or <<>>
    reportCalls,    \* history: report-service calls made
    result,         \* <<the AnalysisResult returned>>, or <<>>
    thrown,         \* the message of the Error thrown to the caller, or NoValue
    cause           \* history: the error caught at line 467, or NoValue

vars == <<pc, videoDuration, intervalSec, ctx, duration, time, shown, seekTimeouts, lateSeek,
          rawFrames, idx, attempt, calls, outcome, progress, frames, input,
          nextId, fi, cj, newCellsFound, minted, delay, failure, service,
          reportStats, reportCalls, result, thrown, cause>>

sampleVars == <<videoDuration, intervalSec, ctx, duration, time, shown, seekTimeouts, lateSeek,
               rawFrames>>
scanVars   == <<idx, attempt, calls, outcome, delay, failure, service>>
linkVars   == <<frames, input, nextId, fi, cj, newCellsFound, minted>>
endVars    == <<reportStats, reportCalls, result, thrown, cause>>

NoValue == "none"

(***************************************************************************)
(* Program constants                                                       *)
(***************************************************************************)
UnitsPerSec      == 60
MAX_FRAMES       == 30
FallbackSec      == 30
RetriesPlusOne   == 3 + 1
Retries          == 3
HISTORY_LENGTH   == 10
THRESHOLD        == 25
SeekWaitMs       == 3000
GlobalTimeoutMs  == 45000

(***************************************************************************)
(* Bounds of the model                                                     *)
(***************************************************************************)
MaxLinkFrames    == 2     \* frames handed to the tracker (rich inputs)
MaxDetections    == 3     \* detections over all those frames
MaxTrailFrames   == 12    \* frames handed to the tracker (one-cell inputs)
MaxSeekTimeouts  == 1     \* seek waits that time out in one extraction, unless all do
MaxRunSec        == 3     \* longest video of a whole run, in seconds
MaxFrameEvents   == 2     \* event strings in one vision-service response
MaxFrameCells    == 2     \* detections in one vision-service response
MaxReportedCount == 3     \* largest cellCount a vision-service response reports
MaxLiveFrames    == 2     \* frames extracted, in the runs followed to their end

(***************************************************************************)
(* Helpers                                                                 *)
(***************************************************************************)
Max2(a, b) == IF a >= b THEN a ELSE b

\* Array.prototype.slice(-n)
SliceLast(s, n) == IF Len(s) <= n THEN s ELSE SubSeq(s, Len(s) - n + 1, Len(s))

\* String.prototype.includes
Includes(s, p) == \E k \in 1..(Len(s) - Len(p) + 1) : SubSeq(s, k, k + Len(p) - 1) = p

\* Array.prototype.some / filter(...).length over events
HasType(events, t) == \E k \in 1..Len(events) : events[k].type = t
CountType(events, t) == Cardinality({k \in 1..Len(events) : events[k].type = t})

RECURSIVE SeqSum(_)
SeqSum(s) == IF s = <<>> THEN 0 ELSE Head(s) + SeqSum(Tail(s))

\* Template-literal rendering of a small natural number
DigitStr == <<"0", "1", "2", "3", "4", "5", "6", "7", "8", "9">>
RECURSIVE NumStr(_)
NumStr(n) == IF n < 10 THEN DigitStr[n + 1] ELSE NumStr(n \div 10) \o DigitStr[(n % 10) + 1]

(***************************************************************************)
(* linkCellsAcrossFrames                                                   *)
(*                                                                         *)
(* A frame is [timestamp, cellCount, cells, events]; a cell is             *)
(* [id, x, y, r, status, history]; an event is [type, description].        *)
(* The tracker state is the record ls = [frames, nextId, newCellsFound,    *)
(* minted]; the step operators below are used both one at a time (the      *)
(* tracker on its own) and composed (LinkAll, the synchronous call made    *)
(* by analyzeMicroscopyVideo).                                             *)
(***************************************************************************)

\* the argument of Math.sqrt at line 296
Dist2(a, b) == (a.x - b.x) * (a.x - b.x) + (a.y - b.y) * (a.y - b.y)

WithinThresholdInclusive(d2) == d2 <= THRESHOLD * THRESHOLD

\* dist < 25
WithinThreshold(d2) == d2 < THRESHOLD * THRESHOLD

CloserThanOrEqual(d2, minDist) == minDist = <<>> \/ d2 <= minDist[1]

\* dist < minDist, minDist being Infinity (<<>>) or the distance of the match
CloserThan(d2, minDist) == minDist = <<>> \/ d2 < minDist[1]

\* prevCells.forEach(prev => ...), from position k on; the result is the
\* position of match in prevCells, 0 for null
RECURSIVE MatchScan(_, _, _, _, _)
MatchScan(curr, prevCells, k, minDist, match) ==
    IF k > Len(prevCells) THEN match
    ELSE LET d2 == Dist2(curr, prevCells[k]) IN
         IF WithinThreshold(d2) /\ CloserThan(d2, minDist)
         THEN MatchScan(curr, prevCells, k + 1, <<d2>>, k)
         ELSE MatchScan(curr, prevCells, k + 1, minDist, match)

FindMatch(curr, prevCells) == MatchScan(curr, prevCells, 1, <<>>, 0)

\* [...prevHistory, { x: match.x, y: match.y }].slice(-HISTORY_LENGTH)
TrailUnbounded(m) == Append(m.history, [x |-> m.x, y |-> m.y])
Trail(m) == SliceLast(Append(m.history, [x |-> m.x, y |-> m.y]), HISTORY_LENGTH)

\* cell.id = nextId++; cell.history = []
FreshCell(cell, id) == [cell EXCEPT !.id = id, !.history = <<>>]

MatchedCellOwnPoint(curr, m) ==
    [curr EXCEPT !.id = m.id,
                 !.history = SliceLast(Append(m.history, [x |-> curr.x, y |-> curr.y]),
                                       HISTORY_LENGTH)]

\* curr.id = match.id; curr.history = ...
MatchedCell(curr, m) == [curr EXCEPT !.id = m.id, !.history = Trail(m)]

FirstStepNoAdvance(ls, j) ==
    [ls EXCEPT !.frames[1].cells[j] = FreshCell(@, ls.nextId),
               !.minted = Append(@, <<1, j, ls.nextId>>)]

\* one turn of frames[0].cells.forEach (lines 278-281) on cell j
FirstStep(ls, j) ==
    [ls EXCEPT !.frames[1].cells[j] = FreshCell(@, ls.nextId),
               !.nextId = @ + 1,
               !.minted = Append(@, <<1, j, ls.nextId>>)]

CellStepExclusive(ls, i, j) ==
    LET prevCells == ls.frames[i].cells
        curr      == ls.frames[i + 1].cells[j]
        m         == FindMatch(curr, prevCells)
        taken     == m # 0 /\ \E j2 \in 1..(j - 1) :
                                 ls.frames[i + 1].cells[j2].id = prevCells[m].id
    IN  IF m # 0 /\ ~taken
        THEN [ls EXCEPT !.frames[i + 1].cells[j] = MatchedCell(@, prevCells[m])]
        ELSE [ls EXCEPT !.frames[i + 1].cells[j] = FreshCell(@, ls.nextId),
                        !.nextId = @ + 1,
                        !.newCellsFound = @ + 1,
                        !.minted = Append(@, <<i + 1, j, ls.nextId>>)]

CellStepSharedHistory(ls, i, j) ==
    LET prevCells == ls.frames[i].cells
        curr      == ls.frames[i + 1].cells[j]
        m         == FindMatch(curr, prevCells)
    IN  IF m # 0
        THEN [ls EXCEPT !.frames[i + 1].cells[j] = MatchedCell(@, prevCells[m]),
                        !.frames[i].cells[m].history = Trail(prevCells[m])]
        ELSE [ls EXCEPT !.frames[i + 1].cells[j] = FreshCell(@, ls.nextId),
                        !.nextId = @ + 1,
                        !.newCellsFound = @ + 1,
                        !.minted = Append(@, <<i + 1, j, ls.nextId>>)]

\* one turn of currCells.forEach (lines 291-320) on cell j of frames[i]
\* (i counted from 0 as in the code, so the frame is frames[i + 1] here)
CellStep(ls, i, j) ==
    LET prevCells == ls.frames[i].cells
        curr      == ls.frames[i + 1].cells[j]
        m         == FindMatch(curr, prevCells)
    IN  IF m # 0
        THEN [ls EXCEPT !.frames[i + 1].cells[j] = MatchedCell(@, prevCells[m])]
        ELSE [ls EXCEPT !.frames[i + 1].cells[j] = FreshCell(@, ls.nextId),
                        !.nextId = @ + 1,
                        !.newCellsFound = @ + 1,
                        !.minted = Append(@, <<i + 1, j, ls.nextId>>)]

GrowthEvent(n) ==
    [type |-> "Growth", description |-> "New cell detected (Total: " \o NumStr(n) \o ")"]

GrowthGuardAnyNew(found, currCells, prevCells) == found > 0

GrowthGuardAfterCells(found, currCells, prevCells) ==
    found > 0 /\ Len(currCells) > Len(prevCells) /\ Len(prevCells) > 0

\* newCellsFound > 0 && currCells.length > prevCells.length
GrowthGuard(found, currCells, prevCells) == found > 0 /\ Len(currCells) > Len(prevCells)

\* the heuristic event detection of lines 323-332 for frames[i]
GrowthStep(ls, i) ==
    LET prevCells == ls.frames[i].cells
        currFrame == ls.frames[i + 1]
    IN  IF GrowthGuard(ls.newCellsFound, currFrame.cells, prevCells)
           /\ ~HasType(currFrame.events, "Mitosis")
        THEN [ls EXCEPT !.frames[i + 1].events = Append(@, GrowthEvent(Len(currFrame.cells)))]
        ELSE ls

RECURSIVE FirstFrom(_, _)
FirstFrom(ls, j) ==
    IF j > Len(ls.frames[1].cells) THEN ls ELSE FirstFrom(FirstStep(ls, j), j + 1)

RECURSIVE CellsFrom(_, _, _)
CellsFrom(ls, i, j) ==
    IF j > Len(ls.frames[i + 1].cells) THEN ls ELSE CellsFrom(CellStep(ls, i, j), i, j + 1)

RECURSIVE FramesFrom(_, _)
FramesFrom(ls, i) ==
    IF i >= Len(ls.frames) THEN ls
    ELSE FramesFrom(GrowthStep(CellsFrom([ls EXCEPT !.newCellsFound = 0], i, 1), i), i + 1)

\* the whole call linkCellsAcrossFrames(fs)
LinkAll(fs) ==
    LET ls0 == [frames |-> fs, nextId |-> 1, newCellsFound |-> 0, minted |-> <<>>]
    IN  IF Len(fs) = 0 THEN ls0 ELSE FramesFrom(FirstFrom(ls0, 1), 1)

\* the tracker state held in the variables
LinkState == [frames |-> frames, nextId |-> nextId, newCellsFound |-> newCellsFound,
              minted |-> minted]

SetLinkState(ls) ==
    /\ frames' = ls.frames
    /\ nextId' = ls.nextId
    /\ newCellsFound' = ls.newCellsFound
    /\ minted' = ls.minted

\* for (let i = ...; i < frames.length; ...): enter the body for frame i or return
LinkLoop(i) ==
    /\ fi' = i
    /\ cj' = 1
    /\ pc' = IF i < Len(frames) THEN "linkCell" ELSE "linked"

\* line 272 and the start of the first frame's forEach
LinkEnter ==
    /\ pc = "link"
    /\ pc' = IF Len(frames) = 0 THEN "linked" ELSE "linkFirst"
    /\ nextId' = 1
    /\ cj' = 1
    /\ UNCHANGED <<frames, input, fi, newCellsFound, minted>>
    /\ UNCHANGED <<sampleVars, scanVars, progress, endVars>>

LinkFirstCell ==
    /\ pc = "linkFirst"
    /\ cj <= Len(frames[1].cells)
    /\ SetLinkState(FirstStep(LinkState, cj))
    /\ cj' = cj + 1
    /\ UNCHANGED <<pc, input, fi>>
    /\ UNCHANGED <<sampleVars, scanVars, progress, endVars>>

LinkFirstDone ==
    /\ pc = "linkFirst"
    /\ cj > Len(frames[1].cells)
    /\ LinkLoop(1)
    /\ newCellsFound' = 0
    /\ UNCHANGED <<frames, input, nextId, minted>>
    /\ UNCHANGED <<sampleVars, scanVars, progress, endVars>>

LinkCell ==
    /\ pc = "linkCell"
    /\ cj <= Len(frames[fi + 1].cells)
    /\ SetLinkState(CellStep(LinkState, fi, cj))
    /\ cj' = cj + 1
    /\ UNCHANGED <<pc, input, fi>>
    /\ UNCHANGED <<sampleVars, scanVars, progress, endVars>>

LinkFrameDone ==
    /\ pc = "linkCell"
    /\ cj > Len(frames[fi + 1].cells)
    /\ frames' = GrowthStep(LinkState, fi).frames
    /\ LinkLoop(fi + 1)
    /\ newCellsFound' = 0
    /\ UNCHANGED <<input, nextId, minted>>
    /\ UNCHANGED <<sampleVars, scanVars, progress, endVars>>

NextLink == LinkEnter \/ LinkFirstCell \/ LinkFirstDone \/ LinkCell \/ LinkFrameDone


(***************************************************************************)
(* The tracker on its own: linkCellsAcrossFrames applied to frames as      *)
(* analyzeFrame builds them (temporary ids 1..n, empty histories).         *)
(***************************************************************************)

\* Cell centres: (0,0)-(20,0) and (20,0)-(40,0) are 20 apart, (0,0)-(7,24) is
\* exactly 25 apart, the other pairs are further apart than 25.
Positions == {<<0, 0>>, <<20, 0>>, <<40, 0>>, <<7, 24>>}

\* a cell as analyzeFrame builds it (lines 219-226) from a detection at p
RawCell(p, index) ==
    [id |-> index, x |-> p[1], y |-> p[2], r |-> 5, status |-> "Normal", history |-> <<>>]

CellsAt(ps) == [j \in 1..Len(ps) |-> RawCell(ps[j], j)]

\* events as analyzeFrame classifies them (lines 229-237)
EventChoices ==
    { <<[type |-> "Observation", description |-> "Debris drifting"]>>,
      <<[type |-> "Observation", description |-> "Debris drifting"],
        [type |-> "Mitosis", description |-> "Cell dividing"]>> }

FrameOf(ts, cells, events) ==
    [timestamp |-> ts, cellCount |-> Len(cells), cells |-> cells, events |-> events]

\* how many detections each of n frames holds: at most d altogether
Shapes(n, d) == { sh \in [1..n -> 0..d] : SeqSum(sh) <= d }

\* the detections before frame k in the flat list of a shape's detections
RECURSIVE Offset(_, _)
Offset(sh, k) == IF k <= 1 THEN 0 ELSE sh[k - 1] + Offset(sh, k - 1)

\* the frames of shape sh whose detections lie at ps, with events ev
RichFrames(sh, ps, ev) ==
    [k \in 1..Len(sh) |->
        FrameOf((k - 1) * UnitsPerSec,
                CellsAt([j \in 1..sh[k] |-> ps[Offset(sh, k) + j]]),
                ev[k])]

\* long sequences: n frames with one cell each, but none in frame gap (if any);
\* the cell is at (0,0) in the odd frames and at (step,0) in the even ones
TrailFrames(n, gap, step) ==
    [k \in 1..n |->
        FrameOf((k - 1) * UnitsPerSec,
                IF k = gap THEN <<>>
                ELSE CellsAt(<< IF k % 2 = 0 THEN <<step, 0>> ELSE <<0, 0>> >>),
                <<>>)]

\* the variables a phase of the model does not use
IdleSample ==
    /\ videoDuration = [kind |-> "finite", units |-> 0] /\ intervalSec = UnitsPerSec
    /\ ctx = TRUE /\ duration = [kind |-> "finite", units |-> 0]
    /\ time = [kind |-> "finite", units |-> 0] /\ shown = 0 /\ seekTimeouts = 0 /\ rawFrames = <<>>
    /\ lateSeek = <<>>

IdleScan ==
    /\ idx = 0 /\ attempt = 0 /\ calls = <<>> /\ outcome = <<>> /\ delay = 0
    /\ failure = NoValue

IdleLink ==
    /\ frames = <<>> /\ input = <<>> /\ nextId = 1 /\ fi = 0 /\ cj = 1
    /\ newCellsFound = 0 /\ minted = <<>>

IdleEnd == reportStats = <<>> /\ reportCalls = 0 /\ result = <<>> /\ thrown = NoValue /\ cause = NoValue

InitLink ==
    /\ pc = "link"
    /\ \/ \E n \in 0..MaxLinkFrames : \E sh \in Shapes(n, MaxDetections) :
              \E ps \in [1..SeqSum(sh) -> Positions] : \E ev \in [1..n -> EventChoices] :
                 frames = RichFrames(sh, ps, ev)
       \/ \E n \in (MaxLinkFrames + 1)..MaxTrailFrames : \E gap \in 0..n :
              \E step \in {0, 20, 40} :
                 frames = TrailFrames(n, gap, step)
    /\ input = frames
    /\ nextId = 1 /\ fi = 0 /\ cj = 1 /\ newCellsFound = 0 /\ minted = <<>>
    /\ IdleSample /\ IdleScan /\ IdleEnd
    /\ service = {}
    /\ progress = <<>>

SpecLink == InitLink /\ [][NextLink]_vars


(***************************************************************************)
(* Properties of the tracker                                               *)
(***************************************************************************)

\* the tracker has returned
Linked == pc \in {"linked", "report", "done"}

\* frames[i] (1-based) has been through its forEach and its event detection
FrameDone(i) == Linked \/ (pc = "linkCell" /\ i <= fi)

\* cell j of frames[i] (1-based) has been given its id and history
Processed(i, j) ==
    \/ FrameDone(i)
    \/ (pc = "linkFirst" /\ i = 1 /\ j < cj)
    \/ (pc = "linkCell" /\ i = fi + 1 /\ j < cj)

CellRefs == { <<i, j>> \in (1..Len(frames)) \X (1..MaxTrailFrames + MaxDetections) :
                j <= Len(frames[i].cells) }

MintedAt(i, j) == \E k \in 1..Len(minted) : minted[k][1] = i /\ minted[k][2] = j

\* the positions of frames[i - 1] that lie nearer than 25 to cell j of frames[i]
NearPrev(i, j) ==
    { k \in 1..Len(frames[i - 1].cells) :
        Dist2(frames[i].cells[j], frames[i - 1].cells[k]) < 25 * 25 }

\* the detections that have no cell of the frame before within the threshold
Unmatched == { c \in CellRefs : c[1] >= 2 /\ NearPrev(c[1], c[2]) = {} }

IdsPresent == { frames[c[1]].cells[c[2]].id : c \in CellRefs }

\* C2 (ID monotonicity): every cell id is a positive integer; the ids minted
\* are 1, 2, 3, ... in processing order (frame by frame, detection by
\* detection), so none is minted twice; and when the tracker has returned, the
\* largest id present is the number of first-frame detections plus the number
\* of unmatched detections of the later frames.
C2_IdMonotonicity ==
    /\ \A c \in CellRefs : frames[c[1]].cells[c[2]].id \in Nat \ {0}
    /\ \A k \in 1..Len(minted) : minted[k][3] = k
    /\ \A k \in 1..(Len(minted) - 1) :
          \/ minted[k][1] < minted[k + 1][1]
          \/ (minted[k][1] = minted[k + 1][1] /\ minted[k][2] < minted[k + 1][2])
    /\ \A k \in 1..Len(minted) :
          Processed(minted[k][1], minted[k][2])
             => frames[minted[k][1]].cells[minted[k][2]].id = k
    /\ (Linked /\ frames # <<>>) =>
          LET news == Len(frames[1].cells) + Cardinality(Unmatched)
          IN  /\ \A id \in IdsPresent : id <= news
              /\ news > 0 => news \in IdsPresent

C2_Witness ==
    /\ pc = "linked"
    /\ Len(frames) >= 2
    /\ Len(frames[1].cells) >= 1
    /\ \E c \in Unmatched : frames[c[1]].cells[c[2]].id = Len(frames[1].cells) + 1
    /\ \E c \in CellRefs : c[1] >= 2 /\ NearPrev(c[1], c[2]) # {}

\* C3 (history bound): at every step of the linking and in its output, every
\* cell's history holds at most 10 points.
C3_HistoryBound ==
    \A c \in CellRefs : Len(frames[c[1]].cells[c[2]].history) <= 10

\* a cell with a full history inherited from a cell whose history was full
C3_Witness ==
    \E c \in CellRefs :
        /\ c[1] >= 2
        /\ Processed(c[1], c[2])
        /\ Len(frames[c[1]].cells[c[2]].history) = 10
        /\ \E k \in NearPrev(c[1], c[2]) : Len(frames[c[1] - 1].cells[k].history) = 10

\* C4 (matching threshold): a detection of a frame after the first inherits an
\* id of the frame before if and only if some cell of that frame lies strictly
\* nearer than 25; the id is then that of a previous cell at minimum distance;
\* otherwise (nearest previous cell at 25 or more, or none) its id is newly
\* minted.  (0,0) -> (30,40) does not link; (50,50) -> (50,50) links.
C4_MatchingThreshold ==
    /\ \A c \in CellRefs :
          (c[1] >= 2 /\ Processed(c[1], c[2])) =>
             LET i    == c[1]
                 j    == c[2]
                 cell == frames[i].cells[j]
                 prev == frames[i - 1].cells
             IN  /\ MintedAt(i, j) <=> NearPrev(i, j) = {}
                 /\ NearPrev(i, j) # {} =>
                       \E k \in NearPrev(i, j) :
                          /\ cell.id = prev[k].id
                          /\ \A k2 \in 1..Len(prev) :
                                Dist2(cell, prev[k]) <= Dist2(cell, prev[k2])
                 /\ NearPrev(i, j) = {} =>
                       \E k \in 1..Len(minted) : minted[k] = <<i, j, cell.id>>
    /\ FindMatch(RawCell(<<30, 40>>, 1), <<RawCell(<<0, 0>>, 1)>>) = 0
    /\ FindMatch(RawCell(<<50, 50>>, 1), <<RawCell(<<50, 50>>, 1)>>) = 1

\* one detection exactly 25 away from its nearest previous cell (new id) and
\* one that inherits the id of a previous cell 20 away
C4_Witness ==
    /\ pc = "linked"
    /\ \E c \in CellRefs :
          /\ c[1] >= 2 /\ MintedAt(c[1], c[2])
          /\ \E k \in 1..Len(frames[c[1] - 1].cells) :
                Dist2(frames[c[1]].cells[c[2]], frames[c[1] - 1].cells[k]) = 625
    /\ \E c \in CellRefs :
          /\ c[1] >= 2 /\ ~MintedAt(c[1], c[2])
          /\ \E k \in 1..Len(frames[c[1] - 1].cells) :
                /\ Dist2(frames[c[1]].cells[c[2]], frames[c[1] - 1].cells[k]) = 400
                /\ frames[c[1]].cells[c[2]].id = frames[c[1] - 1].cells[k].id

\* the example of the specification: ids 1, 2 matched, a third detection new
GrowthExample ==
    << FrameOf(0, CellsAt(<< <<0, 0>>, <<40, 0>> >>), <<>>),
       FrameOf(UnitsPerSec, CellsAt(<< <<0, 0>>, <<40, 0>>, <<7, 24>> >>), <<>>) >>

FirstNearest(i, j) ==
    CHOOSE k \in NearPrev(i, j) :
        \A k2 \in NearPrev(i, j) :
            \/ Dist2(frames[i].cells[j], frames[i - 1].cells[k])
                  < Dist2(frames[i].cells[j], frames[i - 1].cells[k2])
            \/ /\ Dist2(frames[i].cells[j], frames[i - 1].cells[k])
                     = Dist2(frames[i].cells[j], frames[i - 1].cells[k2])
               /\ k <= k2

\* the processed detections of the frames after the first that have a match
Matched == { c \in CellRefs : c[1] >= 2 /\ Processed(c[1], c[2]) /\ NearPrev(c[1], c[2]) # {} }

\* C22 (history content): the history of a detection that has a match p is
\* p's history followed by p's position, without its oldest points where that
\* makes more than 10: it has min(len(p.history) + 1, 10) points, oldest
\* first, ending with p's position, the points before being the last ones of
\* p's history in their order.  A detection without a match, and every
\* detection of the first frame, has an empty history.
C22_HistoryContent ==
    /\ \A c \in Matched :
          LET p  == frames[c[1] - 1].cells[FirstNearest(c[1], c[2])]
              h  == frames[c[1]].cells[c[2]].history
              ph == p.history
              n  == IF Len(ph) + 1 <= 10 THEN Len(ph) + 1 ELSE 10
          IN  /\ Len(h) = n
              /\ h[n] = [x |-> p.x, y |-> p.y]
              /\ \A q \in 1..(n - 1) : h[q] = ph[Len(ph) - (n - 1) + q]
              /\ frames[c[1]].cells[c[2]].id = p.id
    /\ \A c \in CellRefs :
          (Processed(c[1], c[2]) /\ (c[1] = 1 \/ NearPrev(c[1], c[2]) = {})) =>
             frames[c[1]].cells[c[2]].history = <<>>

\* a cell that moved to and fro for eleven frames: its history is full, ends
\* with the position it had one frame before and has lost its oldest point
C22_Witness ==
    /\ pc = "linked"
    /\ Len(frames) >= 12
    /\ \E c \in Matched :
          LET h == frames[c[1]].cells[c[2]].history
          IN  /\ c[1] = 12
              /\ Len(h) = 10
              /\ h[10] = [x |-> 0, y |-> 0]
              /\ h[1] = [x |-> 20, y |-> 0]
              /\ frames[c[1]].cells[c[2]].x = 20
              /\ Len(frames[11].cells) = 1
              /\ Len(frames[11].cells[1].history) = 10
              /\ frames[11].cells[1].history[1] = [x |-> 0, y |-> 0]

\* C23 (non-exclusive matching): every detection that has a cell of the frame
\* before within the threshold inherits the id of the first nearest one,
\* whether or not another detection of its frame has taken that id already; so
\* two detections of a frame with the same first nearest previous cell hold
\* the same id.
C23_NonExclusiveMatching ==
    /\ \A c \in Matched :
          frames[c[1]].cells[c[2]].id = frames[c[1] - 1].cells[FirstNearest(c[1], c[2])].id
    /\ \A c \in Matched : \A d \in Matched :
          (c[1] = d[1] /\ FirstNearest(c[1], c[2]) = FirstNearest(d[1], d[2])) =>
             frames[c[1]].cells[c[2]].id = frames[d[1]].cells[d[2]].id

\* a linked frame with two cells of the same id, inherited from one cell
C23_Witness ==
    /\ pc = "linked"
    /\ \E c \in Matched : \E d \in Matched :
          /\ c[1] = d[1] /\ c[2] < d[2]
          /\ FirstNearest(c[1], c[2]) = FirstNearest(d[1], d[2])
          /\ frames[c[1]].cells[c[2]].id = frames[d[1]].cells[d[2]].id
          /\ Len(frames[c[1] - 1].cells) = 1

\* the frame (1-based) the tracker is working on, 0 when it is at none
Current ==
    CASE pc = "linkFirst" -> 1
      [] pc = "linkCell" -> fi + 1
      [] OTHER -> 0

\* what the tracker does not touch in a cell, and in a frame
CellData(cell) == [x |-> cell.x, y |-> cell.y, r |-> cell.r, status |-> cell.status]
FrameData(f) ==
    [timestamp |-> f.timestamp, cellCount |-> f.cellCount,
     cells |-> [j \in 1..Len(f.cells) |-> CellData(f.cells[j])]]

\* C24 (tracker frame condition): a step of the tracker changes no frame but
\* the one it is working on, and of that frame only the ids and histories of
\* cells and, by one appended Growth event, the events; at all times every
\* frame has the timestamp, the cellCount and the cells (number, order, x, y,
\* r, status) it was handed over with, and its events are the events it was
\* handed over with, in their order, with at most that one event after them.
C24_TrackerFrameCondition ==
    [][ /\ Len(frames') = Len(frames)
        /\ \A i \in 1..Len(frames) :
              /\ i # Current => frames'[i] = frames[i]
              /\ FrameData(frames'[i]) = FrameData(input[i])
              /\ \/ frames'[i].events = frames[i].events
                 \/ /\ i = Current /\ i >= 2
                    /\ frames'[i].events =
                          Append(frames[i].events,
                                 [type |-> "Growth",
                                  description |-> frames'[i].events[Len(frames'[i].events)].description])
              /\ SubSeq(frames'[i].events, 1, Len(input[i].events)) = input[i].events
              /\ Len(frames'[i].events) <= Len(input[i].events) + 1
        /\ input' = input
      ]_vars

\* the tracker gives a cell of the third frame the id and a history of a cell
\* of the second frame, which has a history itself
C24_Witness ==
    /\ pc = "linkCell" /\ fi = 2 /\ cj = 2
    /\ Len(frames[2].cells) = 1 /\ Len(frames[3].cells) = 1
    /\ frames[3].cells[1].id = frames[2].cells[1].id
    /\ Len(frames[3].cells[1].history) = 2
    /\ Len(frames[2].cells[1].history) = 1

\* the ids held by the cells of frames[i]
IdsOf(i) == { frames[i].cells[j].id : j \in 1..Len(frames[i].cells) }

\* C26 (an empty frame breaks every identity): when the tracker is through
\* with the frame that follows a frame without cells, every detection of it
\* has a newly minted id and an empty history, and it has a Growth event if
\* and only if it has a detection and no Mitosis event; when the tracker has
\* returned, no id of a frame before the empty one is held in a frame after it.
C26_EmptyFrameBreaksIdentity ==
    /\ \A i \in 1..(Len(frames) - 1) :
          (frames[i].cells = <<>> /\ FrameDone(i + 1)) =>
             /\ \A j \in 1..Len(frames[i + 1].cells) :
                   /\ MintedAt(i + 1, j)
                   /\ frames[i + 1].cells[j].history = <<>>
             /\ HasType(frames[i + 1].events, "Growth") <=>
                   (frames[i + 1].cells # <<>> /\ ~HasType(frames[i + 1].events, "Mitosis"))
    /\ Linked =>
          \A i \in 1..Len(frames) :
             frames[i].cells = <<>> =>
                \A a \in 1..(i - 1) : \A b \in (i + 1)..Len(frames) :
                   IdsOf(a) \cap IdsOf(b) = {}

\* a cell that stays in place, tracked up to a frame without cells and given
\* a new id, an empty history and a Growth event in the frame after it
C26_Witness ==
    /\ pc = "linked"
    /\ \E i \in 3..(Len(frames) - 1) :
          /\ frames[i].cells = <<>>
          /\ Len(frames[i - 1].cells) = 1 /\ Len(frames[i + 1].cells) = 1
          /\ frames[i - 1].cells[1].id = 1
          /\ frames[i + 1].cells[1].id = 2
          /\ frames[i + 1].cells[1].x = frames[i - 1].cells[1].x
          /\ frames[i + 1].cells[1].history = <<>>
          /\ HasType(frames[i + 1].events, "Growth")

\* C27 (tie-breaking): a detection with several cells of the frame before at
\* the same minimum distance below 25 inherits the id, and the history
\* extended by the position, of the one that comes first in that frame's cell
\* order; as this is determined by the detection and the frame before alone,
\* the other detections of its frame and their order have no part in it.
C27_TieBreaking ==
    \A c \in Matched :
        LET prev == frames[c[1] - 1].cells
            cell == frames[c[1]].cells[c[2]]
            ties == { k \in NearPrev(c[1], c[2]) :
                        \A k2 \in NearPrev(c[1], c[2]) :
                            Dist2(cell, prev[k]) <= Dist2(cell, prev[k2]) }
            k1   == CHOOSE k \in ties : \A k2 \in ties : k <= k2
        IN  /\ cell.id = prev[k1].id
            /\ cell.history # <<>>
            /\ cell.history[Len(cell.history)] = [x |-> prev[k1].x, y |-> prev[k1].y]

\* a detection midway between two cells of the frame before, the farther-left
\* one coming second in the cell order: it inherits from the first of them
C27_Witness ==
    /\ pc = "linked"
    /\ Len(frames) = 2
    /\ Len(frames[1].cells) = 2
    /\ frames[1].cells[1].x = 40 /\ frames[1].cells[1].y = 0
    /\ frames[1].cells[2].x = 0 /\ frames[1].cells[2].y = 0
    /\ \E j \in 1..Len(frames[2].cells) :
          /\ frames[2].cells[j].x = 20 /\ frames[2].cells[j].y = 0
          /\ frames[2].cells[j].id = 1
          /\ frames[2].cells[j].history = <<[x |-> 40, y |-> 0]>>

(***************************************************************************)
(* extractFrames                                                           *)
(*                                                                         *)
(* A JavaScript number that may be NaN or Infinity is a record             *)
(* [kind, units]: kind "finite" with its value in units of 1/60 s, or      *)
(* kind "NaN" / "Infinity" with units 0.                                   *)
(***************************************************************************)
Finite(n) == [kind |-> "finite", units |-> n]
NaN       == [kind |-> "NaN", units |-> 0]
Infinity  == [kind |-> "Infinity", units |-> 0]

\* a || b on numbers: NaN and 0 are falsy
JsOr(a, b) == IF a.kind = "NaN" \/ (a.kind = "finite" /\ a.units = 0) THEN b ELSE a

\* a / n for a positive integer n (exact on the durations of the model)
JsDiv(a, n) == IF a.kind = "finite" THEN Finite(a.units \div n) ELSE a

\* Math.max(a, b), neither being NaN
JsMax(a, b) ==
    IF a.kind = "Infinity" \/ b.kind = "Infinity" THEN Infinity
    ELSE Finite(Max2(a.units, b.units))

JsMin(a, b) ==
    IF a.kind = "Infinity" THEN b
    ELSE IF b.kind = "Infinity" THEN a
    ELSE Finite(IF a.units <= b.units THEN a.units ELSE b.units)

\* a + b, neither being NaN
JsAdd(a, b) ==
    IF a.kind = "Infinity" \/ b.kind = "Infinity" THEN Infinity
    ELSE Finite(a.units + b.units)

\* a < b, neither being NaN
JsLess(a, b) ==
    /\ a.kind = "finite"
    /\ (b.kind = "Infinity" \/ a.units < b.units)

JsLessEq(a, b) == b.kind = "Infinity" \/ (a.kind = "finite" /\ a.units <= b.units)

\* line 58: video.duration || 30
DurationOf(vd) == JsOr(vd, Finite(FallbackSec * UnitsPerSec))

SamplingIntervalMin(iv, d) == JsMin(Finite(iv), JsDiv(d, MAX_FRAMES))

\* line 77: Math.max(intervalSec, duration / MAX_FRAMES)
SamplingInterval(iv, d) == JsMax(Finite(iv), JsDiv(d, MAX_FRAMES))

LoopContinuesInclusive(t, d, fs) == JsLessEq(t, d) /\ ~(Len(fs) >= MAX_FRAMES)

\* lines 89-90: time < duration, and no break on frames.length >= MAX_FRAMES
LoopContinues(t, d, fs) == JsLess(t, d) /\ ~(Len(fs) >= MAX_FRAMES)

\* lines 81-86 and 111-115: if (ctx) { drawImage; frames.push({timestamp, base64}) }
\* The picture is identified by the position the video element shows.
Capture(fs, hasCtx, t, picture) ==
    IF hasCtx THEN Append(fs, [timestamp |-> t, image |-> picture]) ELSE fs

\* the messages of the errors extractFrames rejects with (lines 24, 30-45)
MsgTimeout == "Video processing timed out. The file might be corrupted, use an unsupported codec, or be too large."
MsgLoad    == "Could not load video file."
MsgAborted == "Video loading aborted."
MsgNetwork == "Network error loading video."
MsgDecode  == "Video decoding failed. This usually means the video uses an unsupported codec (like H.265/HEVC). Please convert it to standard MP4 (H.264)."
MsgSrc     == "Video format not supported. Your browser cannot play this file. Please convert to standard MP4 (H.264)."

\* video.error: null, or a MediaError with code 1..4 (or a code the switch lacks)
MediaErrors == {"null", "ABORTED", "NETWORK", "DECODE", "SRC_NOT_SUPPORTED", "other"}

VideoErrorMsg(err) ==
    CASE err = "ABORTED" -> MsgAborted
      [] err = "NETWORK" -> MsgNetwork
      [] err = "DECODE" -> MsgDecode
      [] err = "SRC_NOT_SUPPORTED" -> MsgSrc
      [] OTHER -> MsgLoad

\* video.onerror (lines 27-49)
VideoError ==
    /\ pc = "load"
    /\ \E err \in MediaErrors : cause' = VideoErrorMsg(err)
    /\ pc' = "rejected"
    /\ UNCHANGED <<sampleVars, scanVars, progress, linkVars, reportStats, reportCalls, result, thrown>>

\* the global safety timeout (lines 23-25); it is armed before the video loads
\* and may fire while the video loads or while a seek is awaited
GlobalTimeout ==
    /\ pc \in {"load", "wait"}
    /\ cause' = MsgTimeout
    /\ pc' = "rejected"
    /\ UNCHANGED <<sampleVars, scanVars, progress, linkVars, reportStats, reportCalls, result, thrown>>

\* video.onloadeddata up to the loop's first test (lines 56-89)
LoadedData ==
    /\ pc = "load"
    /\ duration' = DurationOf(videoDuration)
    /\ rawFrames' = Capture(rawFrames, ctx, 0, shown)
    /\ time' = SamplingInterval(intervalSec, duration')
    /\ pc' = "seek"
    /\ UNCHANGED <<videoDuration, intervalSec, ctx, shown, seekTimeouts, lateSeek>>
    /\ UNCHANGED <<scanVars, progress, linkVars, endVars>>

\* the loop goes on: the listener is attached and video.currentTime set (lines 93-108)
StartSeek ==
    /\ pc = "seek"
    /\ LoopContinues(time, duration, rawFrames)
    /\ pc' = "wait"
    /\ UNCHANGED <<sampleVars, scanVars, progress, linkVars, endVars>>

\* the loop ends: resolve(frames) (lines 118-120)
ExtractDone ==
    /\ pc = "seek"
    /\ ~LoopContinues(time, duration, rawFrames)
    /\ pc' = "extracted"
    /\ UNCHANGED <<sampleVars, scanVars, progress, linkVars, endVars>>

\* the rest of one turn of the loop once the wait has ended (lines 111-115, 89)
AfterWait ==
    /\ rawFrames' = Capture(rawFrames, ctx, time.units, shown')
    /\ time' = JsAdd(time, SamplingInterval(intervalSec, duration))
    /\ pc' = "seek"
    /\ UNCHANGED <<videoDuration, intervalSec, ctx, duration>>
    /\ UNCHANGED <<scanVars, progress, linkVars, endVars>>

\* 'seeked' fires: onSeek resolves the wait (lines 100-104)
Seeked ==
    /\ pc = "wait"
    /\ shown' = time.units
    /\ seekTimeouts' = seekTimeouts
    /\ lateSeek' = <<>>
    /\ AfterWait

\* every seek wait so far has ended by its timeout (a video element that
\* completes no seek): the loop variable is one interval ahead of the waits
Stalled ==
    /\ time.kind = "finite"
    /\ time.units = (seekTimeouts + 1) * SamplingInterval(intervalSec, duration).units

\* lines 23-25 and 94-98: the global timer is armed before the video loads,
\* each seek timer when its wait starts; the seek timer of the wait under way
\* fires no earlier than 3000 ms times the number of waits timed out, this one
\* included, after the video loaded, and it fires first only if that is
\* earlier than the 45000 ms of the global timer
SeekTimerWins == SeekWaitMs * (seekTimeouts + 1) < GlobalTimeoutMs

\* the 3 s seek timeout resolves the wait (lines 94-98); the video element
\* still shows what it showed
SeekTimeout ==
    /\ pc = "wait"
    /\ seekTimeouts < MaxSeekTimeouts \/ Stalled
    /\ SeekTimerWins
    /\ shown' = shown
    /\ seekTimeouts' = seekTimeouts + 1
    /\ lateSeek' = <<time.units>>
    /\ AfterWait

\* lines 94-104: the timeout of a wait resolves it without removing its
\* listener or ending its seek, and the listener of the next wait (line 108
\* follows line 99) takes any 'seeked' event: the one the outlived seek raises
\* resolves the wait under way, while the video element shows the position
\* that seek reached.  The model follows one such event per timed-out seek.
StaleSeeked ==
    /\ pc = "wait"
    /\ lateSeek # <<>>
    /\ shown' = lateSeek[1]
    /\ seekTimeouts' = seekTimeouts
    /\ lateSeek' = <<>>
    /\ AfterWait

NextSample ==
    \/ VideoError \/ GlobalTimeout \/ LoadedData \/ StartSeek \/ ExtractDone
    \/ Seeked \/ SeekTimeout \/ StaleSeeked

\* video.duration of the videos sampled: NaN, Infinity, and 0 s, 0.5 s, 1 s,
\* 2.5 s, 5 s, 30 s, 45 s, 60 s, 90 s
SampleDurations ==
    {NaN, Infinity} \cup { Finite(30 * h) : h \in {0, 1, 2, 5, 10, 60, 90, 120, 180} }

\* intervalSec: 0.5 s, 1 s (the default and the value the pipeline passes), 2 s
SampleIntervals == {30, 60, 120}

InitSample ==
    /\ pc = "load"
    /\ videoDuration \in SampleDurations
    /\ intervalSec \in SampleIntervals
    /\ ctx \in BOOLEAN
    /\ duration = Finite(0) /\ time = Finite(0)
    /\ shown = 0 /\ seekTimeouts = 0 /\ lateSeek = <<>> /\ rawFrames = <<>>
    /\ IdleScan /\ IdleLink /\ IdleEnd
    /\ service = {}
    /\ progress = <<>>

SpecSample == InitSample /\ [][NextSample]_vars

Timestamps == [k \in 1..Len(rawFrames) |-> rawFrames[k].timestamp]

\* C5 (sampler shape): at every point of a frame extraction the timestamps
\* obtained so far are strictly increasing (hence without duplicates), start
\* with exactly 0 when there are any, number at most 30, and lie at least the
\* minimum interval apart.
C5_SamplerShape ==
    /\ Len(rawFrames) <= 30
    /\ rawFrames # <<>> => rawFrames[1].timestamp = 0
    /\ \A k \in 1..(Len(rawFrames) - 1) :
          /\ rawFrames[k].timestamp < rawFrames[k + 1].timestamp
          /\ rawFrames[k + 1].timestamp - rawFrames[k].timestamp >= intervalSec

\* a finished extraction of 30 frames whose gaps exceed the minimum interval
C5_Witness ==
    /\ pc = "extracted"
    /\ Len(rawFrames) = 30
    /\ rawFrames[2].timestamp - rawFrames[1].timestamp > intervalSec
    /\ seekTimeouts > 0

\* the timestamps k * interval, k = 0, 1, ..., below d, cut to the first 30
ExpectedTimestamps(d, iv) ==
    LET interval == IF 30 * iv >= d THEN iv ELSE d \div 30
        below    == (d + interval - 1) \div interval
        n        == IF below <= 30 THEN below ELSE 30
    IN  [k \in 1..n |-> (k - 1) * interval]

C12_SkipOnSeekTimeout ==
    [][ (pc = "wait" /\ seekTimeouts' = seekTimeouts + 1) =>
            \A k \in 1..Len(rawFrames') : rawFrames'[k].timestamp # time.units
      ]_vars

\* C15 (sampler edge case), as claimed: a finished extraction from a video of
\* duration <= 0 holds the single timestamp 0.
C15_ZeroDuration ==
    (pc = "extracted" /\ ctx /\ videoDuration.kind = "finite" /\ videoDuration.units <= 0) =>
        Timestamps = <<0>>

\* C16 (fallback duration), as claimed: a finished extraction from a video
\* whose duration is NaN or infinite holds the timestamps of a 30-second video.
C16_FallbackDuration ==
    (pc = "extracted" /\ ctx /\ videoDuration.kind # "finite") =>
        Timestamps = ExpectedTimestamps(FallbackSec * UnitsPerSec, intervalSec)

\* C20 (per-frame waits never abort the run), as claimed: whenever a seek is
\* awaited, the wait can end by its own timeout and the extraction go on with
\* the next timestamp, however many waits have timed out before.
C20_WaitsNeverAbort == pc = "wait" => SeekTimerWins

\* C29 (no stale seek completion), as claimed: a step that ends the wait for
\* the seek to timestamp t is either the completion of that very seek, after
\* which the video element shows t, or the wait's own 3 s timeout; no 'seeked'
\* event of an earlier, timed-out seek ends it.
C29_NoStaleSeekCompletion ==
    [][ (pc = "wait" /\ pc' = "seek") =>
            (shown' = time.units \/ seekTimeouts' = seekTimeouts + 1)
      ]_vars

(***************************************************************************)
(* analyzeFrame                                                            *)
(***************************************************************************)
UpperCase == "ABCDEFGHIJKLMNOPQRSTUVWXYZ"
LowerCase == "abcdefghijklmnopqrstuvwxyz"

LowerChar(c) ==
    IF \E k \in 1..26 : SubSeq(UpperCase, k, k) = c
    THEN LET k == CHOOSE k \in 1..26 : SubSeq(UpperCase, k, k) = c IN SubSeq(LowerCase, k, k)
    ELSE c

\* String.prototype.toLowerCase on the ASCII strings of the model
RECURSIVE ToLowerCase(_)
ToLowerCase(str) ==
    IF Len(str) = 0 THEN ""
    ELSE LowerChar(SubSeq(str, 1, 1)) \o ToLowerCase(SubSeq(str, 2, Len(str)))

EventTypeCaseSensitive(desc) ==
    LET d == desc IN
    IF Includes(d, "mitosis") \/ Includes(d, "divid") \/ Includes(d, "phase") THEN "Mitosis"
    ELSE IF Includes(d, "apoptosis") \/ Includes(d, "death") \/ Includes(d, "lysing")
         THEN "Apoptosis"
    ELSE IF Includes(d, "fusion") \/ Includes(d, "contact") THEN "Interaction"
    ELSE "Observation"

\* lines 230-234
EventType(desc) ==
    LET d == ToLowerCase(desc) IN
    IF Includes(d, "mitosis") \/ Includes(d, "divid") \/ Includes(d, "phase") THEN "Mitosis"
    ELSE IF Includes(d, "apoptosis") \/ Includes(d, "death") \/ Includes(d, "lysing")
         THEN "Apoptosis"
    ELSE IF Includes(d, "fusion") \/ Includes(d, "contact") THEN "Interaction"
    ELSE "Observation"

\* lines 229-237
EventsOf(frameEvents) ==
    [k \in 1..Len(frameEvents) |->
        [type |-> EventType(frameEvents[k]), description |-> frameEvents[k]]]

\* lines 219-226, for one detection c: a parsed detection is a record that has
\* the field status ("" if missing or empty) and those of x, y, r that hold a
\* number; x: c.x copies the number, and leaves the cell without a number for
\* x (the record without the field) where c has none
CellOf(c, index) ==
    [f \in {"id", "status", "history"} \cup (DOMAIN c \cap {"x", "y", "r"}) |->
        CASE f = "id" -> index
          [] f = "status" -> IF c.status = "" THEN "Normal" ELSE c.status
          [] f = "history" -> <<>>
          [] OTHER -> c[f]]

\* lines 219-226
CellsOf(rawCells) == [k \in 1..Len(rawCells) |-> CellOf(rawCells[k], k)]

\* lines 239-244
FrameFromData(ts, data) ==
    [timestamp |-> ts,
     cellCount |-> IF data.cellCount = 0 THEN Len(data.cells) ELSE data.cellCount,
     cells |-> CellsOf(data.cells),
     events |-> EventsOf(data.frameEvents)]

EmptyFrameAtZero(ts) == [timestamp |-> 0, cellCount |-> 0, cells |-> <<>>, events |-> <<>>]

\* lines 214, 262, 267
EmptyFrame(ts) == [timestamp |-> ts, cellCount |-> 0, cells |-> <<>>, events |-> <<>>]

\* line 250 (e.message being a string)
IsRetryable(message) ==
    \/ Includes(message, "500") \/ Includes(message, "503")
    \/ Includes(message, "xhr") \/ Includes(message, "fetch")

\* line 247
IsLastAttempt(a) == a = Retries - 1

AttemptAllowedInclusive(a) == a <= Retries

\* line 197: attempt < retries
AttemptAllowed(a) == a < Retries

BackoffMsFlat(a) == 1000

\* line 255: 1000 * Math.pow(2, attempt)
BackoffMs(a) == 1000 * (2 ^ a)

\* the parsed responses of the vision service the model draws from
RawDetection(p, status) == [x |-> p[1], y |-> p[2], r |-> 5, status |-> status]

Responses ==
    { [cellCount |-> 3,
       cells |-> <<RawDetection(<<20, 0>>, "Dividing"), RawDetection(<<7, 24>>, "")>>,
       frameEvents |-> <<"Metaphase plate forming">>],
      [cellCount |-> 0, cells |-> <<RawDetection(<<0, 0>>, "Rounding")>>,
       frameEvents |-> <<>>] }

\* raw event strings: of one group, of several groups, of none, in upper and
\* mixed case, empty
EventSamples ==
    { "Mitosis observed", "MITOSIS", "Cell Dividing", "Metaphase plate forming",
      "Apoptosis onset", "Cell death during anaphase", "Lysing cell in contact with neighbour",
      "Membrane FUSION", "Contact inhibition", "Apoptotic bodies after division",
      "Debris drifting", "Growth of the colony", "" }

\* detections: complete ones, and ones without a number for x, for y or for r
DetectionSamples ==
    { RawDetection(<<20, 0>>, "Dividing"), RawDetection(<<7, 24>>, ""),
      [y |-> 0, r |-> 5, status |-> ""], [x |-> 40, r |-> 5, status |-> "Rounding"],
      [x |-> 0, y |-> 0, status |-> ""] }

\* the messages of the errors a vision-service call fails with
FailureMessages ==
    { "got status: 500 Internal Server Error", "got status: 503 Service Unavailable",
      "xhr error", "fetch failed", "got status: 429 Too Many Requests",
      "Unexpected token < in JSON at position 0" }

(***************************************************************************)
(* generateScientificReport and getFriendlyErrorMessage                    *)
(***************************************************************************)
RECURSIVE AllEvents(_)
AllEvents(fs) == IF fs = <<>> THEN <<>> ELSE Head(fs).events \o AllEvents(Tail(fs))

RECURSIVE MaxCount(_)
MaxCount(fs) ==
    IF Len(fs) = 1 THEN fs[1].cellCount ELSE Max2(Head(fs).cellCount, MaxCount(Tail(fs)))

StatsFromDetections(fs) ==
    [videoDurationSeconds |-> fs[Len(fs)].timestamp,
     initialPopulation |-> Len(fs[1].cells),
     finalPopulation |-> Len(fs[Len(fs)].cells),
     peakPopulation |-> MaxCount([k \in 1..Len(fs) |-> [cellCount |-> Len(fs[k].cells)]]),
     eventsDetected |-> [mitosis |-> CountType(AllEvents(fs), "Mitosis"),
                         apoptosis |-> CountType(AllEvents(fs), "Apoptosis"),
                         populationGrowth |-> CountType(AllEvents(fs), "Growth")]]

\* lines 342-361, for a non-empty fs
Stats(fs) ==
    [videoDurationSeconds |-> fs[Len(fs)].timestamp,
     initialPopulation |-> fs[1].cellCount,
     finalPopulation |-> fs[Len(fs)].cellCount,
     peakPopulation |-> MaxCount(fs),
     eventsDetected |-> [mitosis |-> CountType(AllEvents(fs), "Mitosis"),
                         apoptosis |-> CountType(AllEvents(fs), "Apoptosis"),
                         populationGrowth |-> CountType(AllEvents(fs), "Growth")]]

ReportEmpty    == "Report generation returned empty."
ReportFallback == "## Analysis Report\n\nAutomated report generation failed due to network or quota limits. Please refer to the raw data charts."
ReportText     == "## Abstract\n..."

MsgNoFrames == "No usable frames found in video."

FriendlyUnexpected == "An unexpected error occurred during analysis. Please try again."

\* lines 401-414
getFriendlyErrorMessage(msg) ==
    IF Includes(msg, "API key") THEN "Invalid API Key provided. Please check your key."
    ELSE IF Includes(msg, "429")
         THEN "Too many requests. The API quota has been exceeded. Please try again in a few minutes."
    ELSE IF Includes(msg, "Network")
         THEN "Network error. Please check your internet connection."
    ELSE IF Includes(msg, "timed out")
         THEN "The video processing timed out. Try a shorter video clip."
    ELSE IF Includes(msg, "unsupported codec") \/ Includes(msg, "H.265")
         THEN "Video format not supported. Your browser cannot play this file (likely H.265/HEVC). Please convert to standard MP4 (H.264)."
    ELSE IF Includes(msg, "corrupted")
         THEN "The video file appears to be corrupted or cannot be decoded by the browser."
    ELSE IF Includes(msg, "video file")
         THEN "Could not parse video file. Ensure it is a valid MP4/WebM that plays in your browser."
    ELSE FriendlyUnexpected

\* Error.prototype.toString
ErrorToString(message) == "Error: " \o message


(***************************************************************************)
(* analyzeMicroscopyVideo                                                  *)
(***************************************************************************)
PercentageWide(i, total) == 15 + ((2 * 100 * i + total) \div (2 * total))

\* line 440: 15 + Math.round((i / totalFrames) * 65), Math.round(x) being
\* floor(x + 1/2), computed on the exact quotient
Percentage(i, total) == 15 + ((2 * 65 * i + total) \div (2 * total))

\* lines 457-458: the numbers the summary text renders
Summary(fs) ==
    [processed |-> Len(fs),
     lastTimestamp |-> IF fs = <<>> THEN 0 ELSE fs[Len(fs)].timestamp,
     totalCount |-> SeqSum([k \in 1..Len(fs) |-> fs[k].cellCount])]

\* lines 421-426: onProgress(5), then extractFrames(file, 1.0) is called
RunStart ==
    /\ pc = "start"
    /\ progress' = Append(progress, 5)
    /\ pc' = "load"
    /\ UNCHANGED <<sampleVars, scanVars, linkVars, endVars>>

\* lines 467-470: whatever is thrown inside the try block
CatchError ==
    /\ pc = "rejected"
    /\ thrown' = getFriendlyErrorMessage(ErrorToString(cause))
    /\ pc' = "failed"
    /\ UNCHANGED <<sampleVars, scanVars, progress, linkVars, reportStats, reportCalls,
                   result, cause>>

\* lines 428-430
NoFrames ==
    /\ pc = "extracted"
    /\ Len(rawFrames) = 0
    /\ cause' = MsgNoFrames
    /\ pc' = "rejected"
    /\ UNCHANGED <<sampleVars, scanVars, progress, linkVars, reportStats, reportCalls,
                   result, thrown>>

\* lines 432-436
BeginScan ==
    /\ pc = "extracted"
    /\ Len(rawFrames) # 0
    /\ progress' = Append(progress, 15)
    /\ frames' = <<>>
    /\ idx' = 0
    /\ calls' = [k \in 1..Len(rawFrames) |-> 0]
    /\ outcome' = [k \in 1..Len(rawFrames) |-> "pending"]
    /\ pc' = "scan"
    /\ UNCHANGED <<sampleVars, attempt, delay, failure, service, input, nextId, fi, cj,
                   newCellsFound, minted, endVars>>

\* lines 438-443: the loop goes on; analyzeFrame is entered
ScanFrame ==
    /\ pc = "scan"
    /\ idx < Len(rawFrames)
    /\ progress' = Append(progress, Percentage(idx, Len(rawFrames)))
    /\ attempt' = 0
    /\ pc' = "attempt"
    /\ UNCHANGED <<sampleVars, idx, calls, outcome, delay, failure, service, linkVars, endVars>>

\* lines 198-199: the try block of this attempt is entered and its request sent
CallVision ==
    /\ pc = "attempt"
    /\ calls' = [calls EXCEPT ![idx + 1] = @ + 1]
    /\ failure' = NoValue
    /\ pc' = "call"
    /\ UNCHANGED <<sampleVars, idx, attempt, outcome, delay, service, progress, linkVars,
                   endVars>>

\* analyzeFrame returns data; line 444 pushes it and the loop steps on
ReturnFrame(data, how) ==
    /\ frames' = Append(frames, data)
    /\ outcome' = [outcome EXCEPT ![idx + 1] = how]
    /\ idx' = idx + 1
    /\ failure' = NoValue
    /\ pc' = "scan"
    /\ UNCHANGED <<sampleVars, calls, service, progress, input, nextId, fi, cj, newCellsFound,
                   minted, endVars>>

\* lines 213-214: a response without text
VisionBlank ==
    /\ pc = "call"
    /\ ReturnFrame(EmptyFrame(rawFrames[idx + 1].timestamp), "blank")
    /\ UNCHANGED <<attempt, delay>>

\* lines 216-244: a response whose text parses
VisionData ==
    /\ pc = "call"
    /\ \E data \in service :
          ReturnFrame(FrameFromData(rawFrames[idx + 1].timestamp, data), "data")
    /\ UNCHANGED <<attempt, delay>>

\* lines 246-257: the call (or the parsing of its response) throws an error
\* that is retryable, on an attempt that is not the last: the backoff starts
VisionRetry ==
    /\ pc = "call"
    /\ \E message \in FailureMessages : IsRetryable(message) /\ failure' = message
    /\ ~IsLastAttempt(attempt)
    /\ delay' = BackoffMs(attempt)
    /\ pc' = "backoff"
    /\ UNCHANGED <<sampleVars, idx, attempt, calls, outcome, service, progress, linkVars,
                   endVars>>

BackoffUnresolved == pc = "backoff" /\ UNCHANGED vars

\* lines 255-256 and 197: the backoff timer fires, continue
BackoffDone ==
    /\ pc = "backoff"
    /\ delay' = 0
    /\ IF AttemptAllowed(attempt + 1)
       THEN /\ attempt' = attempt + 1
            /\ pc' = "attempt"
            /\ UNCHANGED <<sampleVars, idx, calls, outcome, failure, service, progress,
                           linkVars, endVars>>
       ELSE /\ ReturnFrame(EmptyFrame(rawFrames[idx + 1].timestamp), "exhausted")
            /\ attempt' = attempt + 1

\* lines 259-263: the error comes on the last attempt
VisionExhausted ==
    /\ pc = "call"
    /\ \E message \in FailureMessages : TRUE
    /\ IsLastAttempt(attempt)
    /\ ReturnFrame(EmptyFrame(rawFrames[idx + 1].timestamp), "exhausted")
    /\ UNCHANGED <<attempt, delay>>

\* lines 246-264 and 197: an error that is not retryable, on an attempt that is
\* not the last, leaves the catch block by its end: the loop steps on
VisionFallThrough ==
    /\ pc = "call"
    /\ ~IsLastAttempt(attempt)
    /\ \E message \in FailureMessages :
          /\ ~IsRetryable(message)
          /\ IF AttemptAllowed(attempt + 1) THEN failure' = message ELSE TRUE
    /\ IF AttemptAllowed(attempt + 1)
       THEN /\ attempt' = attempt + 1
            /\ pc' = "attempt"
            /\ UNCHANGED <<sampleVars, idx, calls, outcome, delay, service, progress, linkVars,
                           endVars>>
       ELSE /\ ReturnFrame(EmptyFrame(rawFrames[idx + 1].timestamp), "exhausted")
            /\ attempt' = attempt + 1
            /\ UNCHANGED delay

ScanDoneEarly ==
    /\ pc = "scan"
    /\ idx >= 1
    /\ input' = frames
    /\ SetLinkState(LinkAll(frames))
    /\ fi' = Len(frames)
    /\ progress' = progress \o <<85, 90>>
    /\ reportStats' = <<Stats(frames')>>
    /\ reportCalls' = reportCalls + 1
    /\ pc' = "report"
    /\ UNCHANGED <<sampleVars, scanVars, cj, result, thrown, cause>>

\* lines 438, 447-453 and 339-392: the loop ends; onProgress(85), the frames
\* are linked, onProgress(90), and the report request is sent
ScanDone ==
    /\ pc = "scan"
    /\ ~(idx < Len(rawFrames))
    /\ input' = frames
    /\ SetLinkState(LinkAll(frames))
    /\ fi' = Len(frames)
    /\ progress' = progress \o <<85, 90>>
    /\ reportStats' = <<Stats(frames')>>
    /\ reportCalls' = reportCalls + 1
    /\ pc' = "report"
    /\ UNCHANGED <<sampleVars, scanVars, cj, result, thrown, cause>>

FinishWithoutFrames(report) ==
    /\ result' = <<[frames |-> IF report = ReportFallback THEN <<>> ELSE frames,
                    summary |-> Summary(frames), extendedReport |-> report]>>
    /\ progress' = progress \o <<98, 100>>
    /\ pc' = "done"
    /\ UNCHANGED <<sampleVars, scanVars, linkVars, reportStats, reportCalls, thrown, cause>>

\* lines 455-466: generateScientificReport has returned report; onProgress(98),
\* onProgress(100), and the result is returned
Finish(report) ==
    /\ result' = <<[frames |-> frames, summary |-> Summary(frames), extendedReport |-> report]>>
    /\ progress' = progress \o <<98, 100>>
    /\ pc' = "done"
    /\ UNCHANGED <<sampleVars, scanVars, linkVars, reportStats, reportCalls, thrown, cause>>

\* line 393: the report call returns, with a text or without
ReportReturn ==
    /\ pc = "report"
    /\ \E report \in {ReportText, ReportEmpty} : Finish(report)

\* lines 394-397: the report call throws; the error is caught inside
\* generateScientificReport, which returns the fallback narrative
ReportFails ==
    /\ pc = "report"
    /\ Finish(ReportFallback)

NextRun ==
    \/ RunStart \/ VideoError \/ GlobalTimeout \/ LoadedData \/ StartSeek \/ ExtractDone
    \/ Seeked \/ SeekTimeout \/ StaleSeeked \/ CatchError \/ NoFrames \/ BeginScan \/ ScanFrame
    \/ CallVision \/ VisionBlank \/ VisionData \/ VisionRetry \/ BackoffDone
    \/ VisionExhausted \/ VisionFallThrough \/ ScanDone \/ ReportReturn \/ ReportFails

\* video.duration of the videos of whole runs: 1 s, 2 s, ... and Infinity
RunDurations == {Infinity} \cup { Finite(UnitsPerSec * sec) : sec \in 1..MaxRunSec }

InitRun ==
    /\ pc = "start"
    /\ videoDuration \in RunDurations
    /\ intervalSec = UnitsPerSec
    /\ ctx \in BOOLEAN
    /\ duration = Finite(0) /\ time = Finite(0)
    /\ shown = 0 /\ seekTimeouts = 0 /\ lateSeek = <<>> /\ rawFrames = <<>>
    /\ IdleScan /\ IdleLink /\ IdleEnd
    /\ service = Responses
    /\ progress = <<>>

Spec == InitRun /\ [][NextRun]_vars


(***************************************************************************)
(* analyzeFrame on its own: one call analyzeFrame(ai, rawFrames[0]) of a   *)
(* run with a single frame, against a vision service that answers with     *)
(* one given response (or with none, or fails).                            *)
(***************************************************************************)
NextFrame ==
    \/ CallVision \/ VisionBlank \/ VisionData \/ VisionRetry \/ BackoffDone
    \/ VisionExhausted \/ VisionFallThrough

InitFrame ==
    /\ pc = "attempt"
    /\ videoDuration = Finite(UnitsPerSec) /\ intervalSec = UnitsPerSec /\ ctx = TRUE
    /\ duration = Finite(UnitsPerSec) /\ time = Finite(UnitsPerSec)
    /\ shown = 0 /\ seekTimeouts = 0 /\ lateSeek = <<>>
    /\ rawFrames = <<[timestamp |-> 0, image |-> 0]>>
    /\ idx = 0 /\ attempt = 0 /\ calls = <<0>> /\ outcome = <<"pending">> /\ delay = 0
    /\ failure = NoValue
    /\ \/ \E n \in 0..MaxFrameEvents : \E ev \in [1..n -> EventSamples] :
             service = {[cellCount |-> 1, cells |-> <<RawDetection(<<20, 0>>, "")>>,
                         frameEvents |-> ev]}
       \/ \E count \in 0..MaxReportedCount : \E n \in 0..MaxFrameCells :
             \E ds \in [1..n -> DetectionSamples] :
                service = {[cellCount |-> count, cells |-> ds, frameEvents |-> <<>>]}
    /\ IdleLink /\ IdleEnd
    /\ progress = <<5, 15, Percentage(0, 1)>>

SpecFrame == InitFrame /\ [][NextFrame]_vars

(***************************************************************************)
(* analyzeMicroscopyVideo from the extracted frames on (lines 428-470),    *)
(* with what its environment owes it: every call it awaits settles, every  *)
(* timer it sets fires, and its own code runs on when it can               *)
(***************************************************************************)
NextLive ==
    \/ CatchError \/ NoFrames \/ BeginScan \/ ScanFrame
    \/ CallVision \/ VisionBlank \/ VisionData \/ VisionRetry \/ BackoffDone
    \/ VisionExhausted \/ VisionFallThrough \/ ScanDone \/ ReportReturn \/ ReportFails

\* the frames extracted from a video of n seconds at one frame per second
\* (none where the canvas gave no context)
InitLive ==
    /\ pc = "extracted"
    /\ \E n \in 0..MaxLiveFrames :
          /\ videoDuration = Finite(n * UnitsPerSec) /\ duration = Finite(n * UnitsPerSec)
          /\ time = Finite(n * UnitsPerSec)
          /\ ctx = (n > 0)
          /\ shown = (IF n > 0 THEN (n - 1) * UnitsPerSec ELSE 0)
          /\ rawFrames = [k \in 1..n |-> [timestamp |-> (k - 1) * UnitsPerSec,
                                          image |-> (k - 1) * UnitsPerSec]]
    /\ intervalSec = UnitsPerSec
    /\ seekTimeouts = 0 /\ lateSeek = <<>>
    /\ IdleScan /\ IdleLink /\ IdleEnd
    /\ service = Responses
    /\ progress = <<5>>

\* line 199: the awaited generateContent call resolves or rejects
VisionCallSettles ==
    VisionBlank \/ VisionData \/ VisionRetry \/ VisionExhausted \/ VisionFallThrough

\* line 388: the awaited report call resolves or rejects
ReportCallSettles == ReportReturn \/ ReportFails

\* the synchronous code between two awaits
ProgramSteps == CatchError \/ NoFrames \/ BeginScan \/ ScanFrame \/ CallVision

\* ScanDone is possible exactly where the loop test of line 438 fails: its
\* other conjuncts give the next values of variables
ScanLoopEnded == pc = "scan" /\ ~(idx < Len(rawFrames))

\* WF_vars(ScanDone), with ENABLED <<ScanDone>>_vars written as ScanLoopEnded
ScanDoneFair == <>[]ScanLoopEnded => []<><<ScanDone>>_vars

Fairness ==
    /\ WF_vars(VisionCallSettles)
    /\ WF_vars(BackoffDone)
    /\ WF_vars(ReportCallSettles)
    /\ WF_vars(ProgramSteps)
    /\ ScanDoneFair

SpecLive == InitLive /\ [][NextLive]_vars /\ Fairness


(***************************************************************************)
(* Properties of whole runs                                                *)
(***************************************************************************)

IsEmptyFrame(f) == f.cellCount = 0 /\ f.cells = <<>> /\ f.events = <<>>

\* C1 (frame-failure isolation): a run whose extraction yields N >= 1 frames
\* returns a result with exactly N frame entries, the k-th with the k-th
\* extracted timestamp, whichever frames' inferences fail; a frame whose
\* inference used up its attempts is there with cellCount 0, no cells and no
\* events; and the run fails only before any inference was attempted.
C1_FrameFailureIsolation ==
    /\ pc = "done" =>
          /\ Len(result) = 1
          /\ Len(result[1].frames) = Len(rawFrames)
          /\ \A k \in 1..Len(rawFrames) :
                /\ result[1].frames[k].timestamp = rawFrames[k].timestamp
                /\ outcome[k] = "exhausted" => IsEmptyFrame(result[1].frames[k])
    /\ pc \in {"rejected", "failed"} => (calls = <<>> /\ result = <<>>)
    /\ \A k \in 1..Len(frames) :
          (k <= Len(outcome) /\ outcome[k] = "exhausted") =>
             (frames[k].timestamp = rawFrames[k].timestamp /\ IsEmptyFrame(frames[k]))

\* a returned result of three frames of which the second used up its attempts
\* while the first and third hold cells
C1_Witness ==
    /\ pc = "done"
    /\ Len(rawFrames) = 3
    /\ outcome = <<"data", "exhausted", "data">>
    /\ calls[2] = 3
    /\ Len(result[1].frames) = 3
    /\ result[1].frames[3].cells # <<>>

NonDecreasing(s) == \A k \in 1..(Len(s) - 1) : s[k] <= s[k + 1]

\* C7 (progress monotonicity): in every run, returning or failing, the
\* percents passed to the progress callback lie within 0..100 and never
\* decrease in call order; this holds of the per-frame percents for every
\* number of frames up to 30, which stay between the setup's 15 and the
\* tracking stage's 85 (a fact of the formula alone, evaluated when a run
\* starts).
C7_ProgressMonotone ==
    /\ \A k \in 1..Len(progress) : progress[k] \in 0..100
    /\ NonDecreasing(progress)
    /\ pc = "start" =>
          \A total \in 1..30 :
             /\ NonDecreasing([k \in 1..total |-> Percentage(k - 1, total)])
             /\ Percentage(0, total) >= 15
             /\ Percentage(total - 1, total) <= 85

C7_Witness ==
    /\ pc = "done"
    /\ Len(rawFrames) = 3
    /\ progress = <<5, 15, 15, 37, 58, 85, 90, 98, 100>>

\* the messages of the other errors a run can fail with
OtherFailures == {MsgTimeout, MsgLoad, MsgAborted, MsgNetwork, MsgDecode, MsgSrc}

\* C8 (total-failure propagation), as claimed: when extraction obtains no
\* frame, the run makes no inference call and no report call, returns no
\* result, and fails with an error the caller can tell apart from every other
\* failure.
C8_TotalFailure ==
    (pc = "failed" /\ cause = MsgNoFrames) =>
        /\ calls = <<>>
        /\ reportCalls = 0
        /\ result = <<>>
        /\ \A other \in OtherFailures :
              getFriendlyErrorMessage(ErrorToString(other)) # thrown

\* C10 (bounded retry): no frame ever has more than 3 vision-service calls,
\* whatever failures occur, and a call is only ever made for the frame under
\* analysis, which has not yet got its result: once analyzeFrame has returned
\* for a frame (at once on a successful call), no further call is made for it.
C10_BoundedRetry ==
    [][ \A k \in 1..Len(calls') :
           /\ calls'[k] <= 3
           /\ (k <= Len(calls) /\ calls'[k] # calls[k]) =>
                 /\ k = idx + 1
                 /\ outcome[k] = "pending"
                 /\ calls'[k] = calls[k] + 1
           /\ outcome'[k] \in {"data", "blank"} =>
                 (calls'[k] >= 1 /\ (k <= Len(calls) => calls'[k] = calls[k]))
      ]_vars

\* a frame that used all three attempts, and one that succeeded at its second
\* call and was not called again
C10_Witness ==
    /\ pc = "done"
    /\ \E k \in 1..Len(calls) : calls[k] = 3 /\ outcome[k] = "exhausted"
    /\ \E k \in 1..Len(calls) : calls[k] = 2 /\ outcome[k] = "data"


\* C11 (non-retryable failures are not retried), as claimed: whenever
\* analyzeFrame goes on with a frame after a call for it has failed (it waits
\* to call again or is about to call again), the failure was a retryable one;
\* a non-retryable failure has ended the frame's analysis at once.
C11_NonRetryableNotRetried ==
    (pc \in {"attempt", "backoff"} /\ failure # NoValue) => IsRetryable(failure)

\* C13 (report-failure tolerance): every step at which the report call fails
\* ends the run with a result whose frames are the linked frames - the
\* tracker's output on the analyzed frames, one per extracted frame, the same
\* frames a succeeding report call leaves in the result - and whose
\* extendedReport is the fallback narrative; nothing is thrown.  The frames of
\* every returned result are those linked frames, whatever the report call did.
C13_ReportFailureTolerance ==
    [][ /\ ReportFails =>
              /\ pc' = "done"
              /\ result' = <<[frames |-> LinkAll(input).frames,
                              summary |-> Summary(LinkAll(input).frames),
                              extendedReport |-> ReportFallback]>>
              /\ Len(result'[1].frames) = Len(rawFrames)
              /\ thrown' = NoValue
        /\ pc' = "done" =>
              /\ result'[1].frames = LinkAll(input').frames
              /\ thrown' = NoValue
      ]_vars

\* a result returned after a failed report call, with cells in its frames and
\* a Growth event the tracker added
C13_Witness ==
    /\ pc = "done"
    /\ result[1].extendedReport = ReportFallback
    /\ Len(result[1].frames) >= 2
    /\ result[1].frames[2].cells # <<>>
    /\ HasType(result[1].frames[2].events, "Growth")

\* C14 (sequential ordering): frames get their results in increasing-timestamp
\* order; a vision-service call is only ever under way for the one frame under
\* analysis, every frame before it having its result and no frame after it
\* having been called for; the tracker runs only when every frame has a
\* result; and the linked frames 1..i are what the tracker makes of the
\* analyzed frames 1..i alone.
C14_SequentialOrdering ==
    /\ \A k \in 1..Len(calls) :
          /\ calls[k] > 0 => \A j \in 1..(k - 1) : outcome[j] # "pending"
          /\ outcome[k] # "pending" => k <= idx
          /\ (pc \in {"attempt", "call", "backoff"} /\ k > idx + 1) => calls[k] = 0
    /\ pc \in {"scan", "attempt", "call", "backoff"} =>
          /\ Len(frames) = idx
          /\ \A k \in 1..Len(frames) : frames[k].timestamp = rawFrames[k].timestamp
          /\ \A k \in 1..(Len(frames) - 1) : frames[k].timestamp < frames[k + 1].timestamp
    /\ pc \in {"report", "done"} =>
          /\ \A k \in 1..Len(outcome) : outcome[k] # "pending"
          /\ Len(input) = Len(rawFrames)
          /\ \A i \in 1..Len(frames) :
                SubSeq(frames, 1, i) = LinkAll(SubSeq(input, 1, i)).frames

\* a returned run of three frames whose second frame was called for three times
\* and whose third frame inherited an id from the second
C14_Witness ==
    /\ pc = "done"
    /\ Len(frames) = 3
    /\ calls[2] = 3 /\ calls[3] >= 1
    /\ \E j \in 1..Len(frames[3].cells) : frames[3].cells[j].history # <<>>

Tally(fs, kind) ==
    Cardinality({ e \in UNION { {<<k, n>> : n \in 1..Len(fs[k].events)} : k \in 1..Len(fs) } :
                    fs[e[1]].events[e[2]].type = kind })

Aggregates(fs) ==
    [lastTimestamp |-> fs[Len(fs)].timestamp,
     firstCount |-> fs[1].cellCount,
     lastCount |-> fs[Len(fs)].cellCount,
     peakCount |-> CHOOSE m \in { fs[k].cellCount : k \in 1..Len(fs) } :
                      \A k \in 1..Len(fs) : m >= fs[k].cellCount,
     tallies |-> [kind \in {"Mitosis", "Apoptosis", "Growth"} |-> Tally(fs, kind)]]

\* the statistics of a report request, written from aggregate numbers alone
RequestOf(a) ==
    [videoDurationSeconds |-> a.lastTimestamp,
     initialPopulation |-> a.firstCount,
     finalPopulation |-> a.lastCount,
     peakPopulation |-> a.peakCount,
     eventsDetected |-> [mitosis |-> a.tallies["Mitosis"],
                         apoptosis |-> a.tallies["Apoptosis"],
                         populationGrowth |-> a.tallies["Growth"]]]

\* frames of the same aggregates and nothing else: no cell, no event
\* description, no timestamp but the last
Anonymous(fs) ==
    [k \in 1..Len(fs) |->
        [timestamp |-> IF k = Len(fs) THEN fs[k].timestamp ELSE 0,
         cellCount |-> fs[k].cellCount,
         cells |-> <<>>,
         events |-> [n \in 1..Len(fs[k].events) |->
                        [type |-> fs[k].events[n].type, description |-> ""]]]]

\* C25 (data minimization): once the report request is sent, the statistics it
\* carries are the ones written from the aggregate numbers of the linked
\* frames alone (last timestamp, first, last and greatest cellCount, tallies of
\* Mitosis, Apoptosis and Growth events), and frames stripped of their cells,
\* event descriptions and other timestamps, which keep these aggregates, give
\* the same request.
C25_DataMinimization ==
    pc \in {"report", "done"} =>
        /\ reportStats = <<RequestOf(Aggregates(frames))>>
        /\ Aggregates(Anonymous(frames)) = Aggregates(frames)
        /\ Stats(Anonymous(frames)) = reportStats[1]

\* a request sent for frames that hold cells with statuses and described
\* events, the first with a count that differs from the number of cells held
C25_Witness ==
    /\ pc = "report"
    /\ Len(frames) = 3
    /\ Anonymous(frames) # frames
    /\ frames[1].cellCount # Len(frames[1].cells)
    /\ \E j \in 1..Len(frames[1].cells) : frames[1].cells[j].status = "Dividing"
    /\ frames[3].cells # <<>>
    /\ reportStats[1].eventsDetected.mitosis > 0
    /\ reportStats[1].eventsDetected.populationGrowth > 0

\* C28 (bounded external calls): at every point of a run at most 30 frames are
\* extracted, each frame has had at most 3 vision-service calls, the calls of
\* all frames number at most 3 per frame and at most 90, none is made before
\* the frames are extracted, and the report service has been called at most
\* once, and then only with at least one frame extracted and every frame's
\* inference returned; a run that fails has not called it.
C28_BoundedExternalCalls ==
    /\ Len(rawFrames) <= MAX_FRAMES
    /\ Len(calls) \in {0, Len(rawFrames)}
    /\ \A k \in 1..Len(calls) : calls[k] <= 3
    /\ SeqSum(calls) <= 3 * Len(rawFrames)
    /\ SeqSum(calls) <= 90
    /\ reportCalls <= 1
    /\ reportCalls = 1 =>
          /\ Len(rawFrames) > 0
          /\ Len(frames) = Len(rawFrames)
          /\ \A k \in 1..Len(outcome) : outcome[k] # "pending"
    /\ pc \in {"rejected", "failed"} => (reportCalls = 0 /\ SeqSum(calls) = 0)
    /\ (pc = "extracted" /\ Len(rawFrames) = 0) => reportCalls = 0

\* a finished run of three frames, three calls each, and one report call
C28_Witness ==
    /\ pc = "done"
    /\ Len(rawFrames) = 3
    /\ calls = <<3, 3, 3>>
    /\ reportCalls = 1

\* C30 (termination): when every vision-service call and the report call
\* settles and every backoff timer fires, a run over the extracted frames
\* eventually is done or has failed; done, it has returned a result and its
\* last progress notification is 100; failed, it has thrown an error and
\* returned nothing; the inference of each frame under way eventually returns
\* and the loop steps to the next frame; and the per-frame stage is always
\* left for the report.
C30_Termination ==
    /\ <>(pc \in {"done", "failed"})
    /\ [](pc = "done" =>
            (Len(result) = 1 /\ thrown = NoValue /\ progress[Len(progress)] = 100))
    /\ [](pc = "failed" => (thrown # NoValue /\ result = <<>>))
    /\ \A k \in 0..MaxLiveFrames :
          (pc \in {"attempt", "call", "backoff"} /\ idx = k) ~> (pc = "scan" /\ idx = k + 1)
    /\ (pc \in {"scan", "attempt", "call", "backoff"}) ~> (pc = "report")

\* a run that is done after every frame took its three attempts, each after
\* a backoff wait
C30_Witness ==
    /\ pc = "done"
    /\ Len(rawFrames) = MaxLiveFrames
    /\ \A k \in 1..Len(calls) : calls[k] = 3
    /\ \A k \in 1..Len(outcome) : outcome[k] = "exhausted"
    /\ progress[Len(progress)] = 100
    /\ result # <<>>

(***************************************************************************)
(* Properties of analyzeFrame                                              *)
(***************************************************************************)

\* the response the vision service answers with (one per behaviour of SpecFrame)
TheResponse == CHOOSE data \in service : TRUE

\* analyzeFrame has returned the frame built from the response
Inferred == pc = "scan" /\ idx = 1 /\ outcome[1] = "data"

\* the ordered list of (substring, kind) rules
KindRules ==
    << <<"mitosis", "Mitosis">>, <<"divid", "Mitosis">>, <<"phase", "Mitosis">>,
       <<"apoptosis", "Apoptosis">>, <<"death", "Apoptosis">>, <<"lysing", "Apoptosis">>,
       <<"fusion", "Interaction">>, <<"contact", "Interaction">> >>

\* the kind of the first rule whose substring occurs, case ignored
KindByRules(desc) ==
    LET hits == { k \in 1..Len(KindRules) : Includes(ToLowerCase(desc), KindRules[k][1]) }
    IN  IF hits = {} THEN "Observation"
        ELSE KindRules[CHOOSE k \in hits : \A k2 \in hits : k <= k2][2]

\* the kinds of some event strings, worked out by hand
KindExamples ==
    { <<"MITOSIS", "Mitosis">>, <<"Cell Dividing", "Mitosis">>,
      <<"Cell death during anaphase", "Mitosis">>,
      <<"Apoptotic bodies after division", "Observation">>,
      <<"Lysing cell in contact with neighbour", "Apoptosis">>,
      <<"Membrane FUSION", "Interaction">>, <<"Growth of the colony", "Observation">>,
      <<"", "Observation">> }

\* C17 (event classification): the events of an inferred frame are the raw
\* event strings of the response, one event each, in the same order and with
\* the description unchanged; the kind of each is that of the first of the
\* ordered substring rules that applies, case ignored, and Observation if none
\* does; it is never Growth.
C17_EventClassification ==
    Inferred =>
        LET raw == TheResponse.frameEvents
            ev  == frames[1].events
        IN  /\ Len(ev) = Len(raw)
            /\ \A k \in 1..Len(raw) :
                  /\ ev[k].description = raw[k]
                  /\ ev[k].type = KindByRules(raw[k])
                  /\ ev[k].type \in {"Mitosis", "Apoptosis", "Interaction", "Observation"}
                  /\ \A ex \in KindExamples : ex[1] = raw[k] => ev[k].type = ex[2]

\* a string of two groups followed by an upper-case one
C17_Witness ==
    /\ Inferred
    /\ TheResponse.frameEvents = <<"Lysing cell in contact with neighbour", "MITOSIS">>
    /\ frames[1].events =
          <<[type |-> "Apoptosis", description |-> "Lysing cell in contact with neighbour"],
            [type |-> "Mitosis", description |-> "MITOSIS"]>>

\* C18 (no count reconciliation), as claimed: the cellCount of an inferred
\* frame is the count the response reported, whatever the count and the
\* number of detections.
C18_NoCountReconciliation ==
    Inferred => frames[1].cellCount = TheResponse.cellCount

\* the positions of the detections that have a number for each of x, y and r
ValidDetections(rawCells) ==
    { k \in 1..Len(rawCells) : {"x", "y", "r"} \subseteq DOMAIN rawCells[k] }

\* C19 (invalid detections are dropped), as claimed: an inferred frame holds
\* one cell for each detection of the response that has numbers for x, y and
\* r, and none for the others: every cell of it has x, y and r.
C19_InvalidDetectionsDropped ==
    Inferred =>
        /\ Len(frames[1].cells) = Cardinality(ValidDetections(TheResponse.cells))
        /\ \A j \in 1..Len(frames[1].cells) : {"x", "y", "r"} \subseteq DOMAIN frames[1].cells[j]

====
